---- MODULE Spec2Model ----
(***************************************************************************)
(* A model of pdfrw's PdfWriter (src/pdfrw/pdfwriter.py): the object-graph *)
(* serializer FormatObjects (add / format_obj / format_array / dump) and   *)
(* the page API PdfWriter (addpage / write).                               *)
(*                                                                         *)
(* Python objects live in `heap`, a sequence indexed by object identity    *)
(* (id(obj) = 1, 2, ...) of the objects' fields.  The mutual recursion of add() and format_obj() *)
(* is an explicit call stack; every call and every return is one step.     *)
(* Text is modelled by real strings, so every length is a byte count.      *)
(***************************************************************************)
EXTENDS Integers, Sequences, FiniteSets, TLC

(***************************************************************************)
(* Bounds of the model.                                                    *)
(***************************************************************************)
\* Objects of an input graph have identities 1..MaxNode; 1 is the trailer.
MaxNode == 3
\* Longest PdfArray of an input graph.
MaxKids == 2
\* Most references (dictionary entries plus array elements) in an input graph.
MaxEdges == 3
\* Most addpage calls made on one PdfWriter.
MaxPages == 2
\* Longest token sequence handed to format_array alone.
MaxTokens == 3

(***************************************************************************)
(* Program constants.                                                      *)
(***************************************************************************)
\* The width threshold of format_array.
LineWidth == 70
\* The initial value of format_array's running count.
BigCount == 1000000
\* Generation number of the free-list head entry of the xref table.
FreeGen == 65535

VARIABLES
  heap,           \* id(obj) -> the object's fields
  trailer,        \* id of the object passed to dump as `trailer`, 0 if none
  compress,       \* dump's `compress` argument
  pc,             \* position inside dump
  stack,          \* the add()/format_obj() call stack, innermost last
  indirect_dict,  \* self.indirect_dict: id -> object number
  objlist,        \* self.objlist: formatted objects (or the None placeholder)
  visited,        \* self.visited: ids of the objects being inlined
  trailer_text,   \* dump's local `trailer` after pass 2 (the formatted text)
  sink,           \* what f received: one string per f.write call
  offset,         \* dump's local `offset`
  offsets,        \* dump's local `offsets`
  compressed,     \* the ids the compress collaborator was invoked on, in order
  pagearray,      \* id of PdfWriter's self.pagearray, 0 without a PdfWriter
  raised,         \* the exception the last PdfWriter call raised, "" if none
  tokens,         \* format_array's argument myarray, when it is called alone
  packed          \* what that call returned

vars == <<heap, trailer, compress, pc, stack, indirect_dict, objlist, visited,
          trailer_text, sink, offset, offsets, compressed, pagearray, raised,
          tokens, packed>>

\* The state of one FormatObjects.dump call.
dumpvars == <<compress, stack, indirect_dict, objlist, visited, trailer_text,
              sink, offset, offsets, compressed>>

\* What FormatObjects never touches.
others == <<pagearray, raised, tokens, packed>>

(***************************************************************************)
(* The object model (pdfobjects, a collaborator): values and objects.      *)
(***************************************************************************)
\* Dictionary keys, in the byte order Python's sorted() gives them.
KeyNames == <<"/A", "/B", "/Count", "/Filter", "/Kids", "/Length", "/Pages",
              "/Parent", "/Root", "/Size", "/Type">>

Key(name) == CHOOSE k \in DOMAIN KeyNames : KeyNames[k] = name

\* A value held by a dictionary entry or array element: a reference to a heap
\* object, or an anonymous scalar (a PdfObject / PdfName nobody else holds).
Ref(n) == [id |-> n, lit |-> ""]
Lit(s) == [id |-> 0, lit |-> s]

NoStream == <<>>

PdfDict(ind, strm, kids) ==
  [kind |-> "dict", indirect |-> ind, stream |-> strm, kids |-> kids, text |-> ""]
PdfArray(ind, kids) ==
  [kind |-> "array", indirect |-> ind, stream |-> NoStream, kids |-> kids, text |-> ""]
PdfObject(ind, text) ==
  [kind |-> "scalar", indirect |-> ind, stream |-> NoStream, kids |-> <<>>, text |-> text]

\* IndirectPdfDict(obj): a new dictionary holding obj's entries, flagged indirect.
IndirectPdfDict(strm, kids) == PdfDict(TRUE, strm, kids)

(***************************************************************************)
(* Small helpers on numbers, sets and text.                                *)
(***************************************************************************)
Min(S) == CHOOSE m \in S : \A x \in S : m <= x

RECURSIVE SumLen(_)
\* sum(len(x) for x in s)
SumLen(s) == IF s = <<>> THEN 0 ELSE Len(Head(s)) + SumLen(Tail(s))

RECURSIVE Join(_, _)
\* sep.join(s)
Join(sep, s) ==
  IF s = <<>> THEN ""
  ELSE IF Len(s) = 1 THEN s[1] ELSE s[1] \o sep \o Join(sep, Tail(s))

RECURSIVE Zeros(_)
Zeros(n) == IF n <= 0 THEN "" ELSE "0" \o Zeros(n - 1)

\* '%0<w>d' % n
Pad(n, w) == Zeros(w - Len(ToString(n))) \o ToString(n)

\* '%s' % n for a number
Str(n) == ToString(n)

(***************************************************************************)
(* FormatObjects.format_array                                              *)
(***************************************************************************)
ArrayFmt == <<"[", "]">>     \* the formatter '[%s]'
DictFmt == <<"<<", ">>">>    \* the formatter '<<%s>>'

\* formatter % s
Fmt(formatter, s) == formatter[1] \o s \o formatter[2]

\* The test that opens a new line group (line 75).
StartsGroup(lenx, count) == lenx + count > LineWidth

RECURSIVE Pack(_, _, _)
\* The loop of lines 73-80: the remaining tokens, bigarray and count.
Pack(rest, bigarray, count) ==
  IF rest = <<>> THEN bigarray
  ELSE LET x == Head(rest)
           lenx == Len(x)
           fresh == StartsGroup(lenx, count)
           big1 == IF fresh THEN Append(bigarray, <<>>) ELSE bigarray
           count1 == IF fresh THEN 0 ELSE count
           big2 == [big1 EXCEPT ![Len(big1)] = Append(@, x)]
       IN  Pack(Tail(rest), big2, count1 + lenx + 1)

\* The test of line 69: the array goes on one line.
FitsOneLine(myarray) == SumLen(myarray) <= LineWidth

format_array(myarray, formatter) ==
  IF FitsOneLine(myarray)
  THEN Fmt(formatter, Join(" ", myarray))
  ELSE LET bigarray == Pack(myarray, <<>>, BigCount)
       IN  Fmt(formatter,
               Join("\n  ", [g \in DOMAIN bigarray |-> Join(" ", bigarray[g])]))

(***************************************************************************)
(* The compress collaborator (pdfcompress.compress): it replaces the       *)
(* payload of a stream dictionary by its encoded bytes and adds the filter *)
(* name and the length.                                                    *)
(***************************************************************************)
Encoded == "z"

Compress(obj) ==
  IF obj.stream /= NoStream /\ Key("/Filter") \notin DOMAIN obj.kids
  THEN [obj EXCEPT !.stream = <<Encoded>>,
                   !.kids = (Key("/Filter") :> Lit("/FlateDecode"))
                            @@ (Key("/Length") :> Lit(Str(Len(Encoded))))
                            @@ obj.kids]
  ELSE obj

(***************************************************************************)
(* FormatObjects.add and FormatObjects.format_obj                          *)
(***************************************************************************)
\* The placeholder objlist.append(None) leaves.
None == "None"

\* A variant of the test of lines 38-41 that leaves out the stream rule.
IsIndirectFlagOnly(obj) == obj.indirect

\* Lines 38-41: is obj written as a numbered object?
IsIndirect(obj) ==
  IF obj.kind = "dict" THEN obj.indirect \/ obj.stream /= NoStream
  ELSE obj.indirect

\* A variant of the table lookup that never finds an entry.
LookupMiss(d, objid) == 0

\* self.indirect_dict.get(objid); 0 stands for None.
Lookup(d, objid) == IF objid \in DOMAIN d THEN d[objid] ELSE 0

\* len(objlist) + 1 (line 58)
NextObjNum(ol) == Len(ol) + 1

\* '%s 0 R' % objnum
RefToken(objnum) == Str(objnum) \o " 0 R"

\* visited.add(objid) (line 47)
MarkVisited(v, objid) == v \cup {objid}

\* A variant of add that leaves out visited.remove.
UnmarkVisitedSkip(v, objid) == v

\* visited.remove(objid) (line 49)
UnmarkVisited(v, objid) == v \ {objid}

RECURSIVE SortedKeys(_)
\* The keys of sorted(obj.iteritems())
SortedKeys(S) ==
  IF S = {} THEN <<>> ELSE <<Min(S)>> \o SortedKeys(S \ {Min(S)})

\* What format_obj iterates over: the elements of an array in index order, the
\* items of a dictionary in sorted key order, nothing for a scalar.
Items(obj) ==
  IF obj.kind = "array"
  THEN [i \in 1..Len(obj.kids) |-> [key |-> 0, val |-> obj.kids[i]]]
  ELSE IF obj.kind = "dict"
  THEN LET ks == SortedKeys(DOMAIN obj.kids)
       IN  [i \in 1..Len(ks) |-> [key |-> ks[i], val |-> obj.kids[ks[i]]]]
  ELSE <<>>

\* A variant of the test of line 93 that leaves out the stream condition.
CompressesAny(c, obj) == obj.kind = "dict" /\ c

\* Line 93: does format_obj hand obj to compress?
Compresses(c, obj) ==
  obj.kind = "dict" /\ c /\ obj.stream /= NoStream /\ obj.stream[1] /= ""

\* The heap after format_obj's call of compress([obj]) (lines 93-94).
FormatEnter(h, c, n) ==
  IF Compresses(c, h[n]) THEN [h EXCEPT ![n] = Compress(h[n])] ELSE h

\* A new activation of format_obj(heap[n]); via says who called it: dump
\* ("root"), add's inline branch or add's indirect branch.
Frame(h, n, via, objnum) ==
  [node |-> n, via |-> via, objnum |-> objnum, items |-> Items(h[n]),
   i |-> 1, myarray |-> <<>>]

\* The value format_obj returns once its loop is over (lines 91, 99-105).
FormatResult(obj, myarray) ==
  IF obj.kind = "array" THEN format_array(myarray, ArrayFmt)
  ELSE IF obj.kind = "dict"
  THEN LET result == format_array(myarray, DictFmt)
       IN  IF obj.stream /= NoStream
           THEN result \o "\nstream\n" \o obj.stream[1] \o "\nendstream"
           ELSE result
  ELSE obj.text

\* format_obj's loop body once add returned token (lines 90, 97-98).
Deliver(h, f, token) ==
  [f EXCEPT !.myarray = @ \o (IF h[f.node].kind = "dict"
                              THEN <<KeyNames[f.items[f.i].key], token>>
                              ELSE <<token>>),
            !.i = @ + 1]

Top == stack[Len(stack)]
Arg == Top.items[Top.i].val
Calling == pc \in {"pass1", "pass2"} /\ stack /= <<>> /\ Top.i <= Len(Top.items)
Returning == pc \in {"pass1", "pass2"} /\ stack /= <<>> /\ Top.i > Len(Top.items)

\* The stack once the innermost activation returned token to its caller.
PopDeliver(h, token) ==
  LET n == Len(stack)
  IN  [k \in 1..(n - 1) |->
         IF k = n - 1 THEN Deliver(h, stack[k], token) ELSE stack[k]]

\* add(obj) on an anonymous scalar: inlined at once (lines 43-50, 105).
AddLiteral ==
  /\ Calling /\ Arg.id = 0
  /\ stack' = [stack EXCEPT ![Len(stack)] = Deliver(heap, @, Arg.lit)]
  /\ UNCHANGED <<others, heap, trailer, compress, pc, indirect_dict, objlist, visited,
                 trailer_text, sink, offset, offsets, compressed>>

\* add(obj): the assertion of line 45 fails.
AddCircular ==
  /\ Calling /\ Arg.id > 0
  /\ ~IsIndirect(heap[Arg.id])
  /\ Arg.id \in visited
  /\ pc' = "error"
  /\ UNCHANGED <<others, heap, trailer, compress, stack, indirect_dict, objlist, visited,
                 trailer_text, sink, offset, offsets, compressed>>

\* add(obj), inline branch up to the call of format_obj (lines 43-48).
AddInline ==
  /\ Calling /\ Arg.id > 0
  /\ ~IsIndirect(heap[Arg.id])
  /\ Arg.id \notin visited
  /\ visited' = MarkVisited(visited, Arg.id)
  /\ heap' = FormatEnter(heap, compress, Arg.id)
  /\ compressed' = IF Compresses(compress, heap[Arg.id])
                   THEN Append(compressed, Arg.id) ELSE compressed
  /\ stack' = Append(stack, Frame(heap', Arg.id, "inline", 0))
  /\ UNCHANGED <<others, trailer, compress, pc, indirect_dict, objlist,
                 trailer_text, sink, offset, offsets>>

\* add(obj), indirect object seen before (lines 52, 56, 64).
AddIndirectSeen ==
  /\ Calling /\ Arg.id > 0
  /\ IsIndirect(heap[Arg.id])
  /\ Lookup(indirect_dict, Arg.id) /= 0
  /\ stack' = [stack EXCEPT ![Len(stack)] =
                 Deliver(heap, @, RefToken(Lookup(indirect_dict, Arg.id)))]
  /\ UNCHANGED <<others, heap, trailer, compress, pc, indirect_dict, objlist, visited,
                 trailer_text, sink, offset, offsets, compressed>>

\* add(obj), new indirect object, up to the call of format_obj (lines 52-63).
AddIndirectNew ==
  /\ Calling /\ Arg.id > 0
  /\ IsIndirect(heap[Arg.id])
  /\ Lookup(indirect_dict, Arg.id) = 0
  /\ LET objnum == NextObjNum(objlist)
     IN  /\ objlist' = Append(objlist, None)
         /\ indirect_dict' = (Arg.id :> objnum) @@ indirect_dict
         /\ heap' = FormatEnter(heap, compress, Arg.id)
         /\ compressed' = IF Compresses(compress, heap[Arg.id])
                          THEN Append(compressed, Arg.id) ELSE compressed
         /\ stack' = Append(stack, Frame(heap', Arg.id, "indirect", objnum))
  /\ UNCHANGED <<others, trailer, compress, pc, visited, trailer_text, sink, offset, offsets>>

\* format_obj returns into add's inline branch, add returns (lines 48-50).
ReturnInline ==
  /\ Returning /\ Top.via = "inline"
  /\ visited' = UnmarkVisited(visited, Top.node)
  /\ stack' = PopDeliver(heap, FormatResult(heap[Top.node], Top.myarray))
  /\ UNCHANGED <<others, heap, trailer, compress, pc, indirect_dict, objlist,
                 trailer_text, sink, offset, offsets, compressed>>

\* format_obj returns into add's indirect branch, add returns (lines 63-64).
ReturnIndirect ==
  /\ Returning /\ Top.via = "indirect"
  /\ objlist' = [objlist EXCEPT ![Top.objnum] =
                   FormatResult(heap[Top.node], Top.myarray)]
  /\ stack' = PopDeliver(heap, RefToken(Top.objnum))
  /\ UNCHANGED <<others, heap, trailer, compress, pc, indirect_dict, visited,
                 trailer_text, sink, offset, offsets, compressed>>

(***************************************************************************)
(* FormatObjects.dump                                                      *)
(***************************************************************************)
\* The versions dump is called with ('1.3' is the default).
Versions == {"1.3", "1.10"}

\* Stand-in for the four bytes \xe2\xe3\xcf\xd3 of the header's second line.
HighBytes == "####"

\* '%%PDF-%s\n%%\xe2\xe3\xcf\xd3\n' % version
Header(version) == "%PDF-" \o version \o "\n%" \o HighBytes \o "\n"

\* A variant of line 120 that leaves out the free entry 0.
TrailerSizeNoFree(ol) == Len(ol)

\* PdfObject(len(self.objlist) + 1) (line 120)
TrailerSize(ol) == Len(ol) + 1

\* '%s 0 obj\n%s\nendobj\n' % (i + 1, x)
ObjStr(n, x) == Str(n) \o " 0 obj\n" \o x \o "\nendobj\n"

\* A variant of line 136 that counts one byte less for each block.
AdvanceShort(off, objstr) == off + Len(objstr) - 1

\* offset += len(objstr)
Advance(off, objstr) == off + Len(objstr)

\* 'xref\n0 %s\n' % len(offsets)
XrefHead(n) == "xref\n0 " \o Str(n) \o "\n"

\* '%010d %05d %s\r\n' % x
XrefEntry(x) == Pad(x.off, 10) \o " " \o Pad(x.gen, 5) \o " " \o x.flag \o "\r\n"

\* 'trailer\n\n%s\nstartxref\n%s\n%%%%EOF\n' % (trailer, offset)
Footer(text, off) ==
  "trailer\n\n" \o text \o "\nstartxref\n" \o Str(off) \o "\n%%EOF\n"

\* The state dump creates (lines 109-113) and its first call of format_obj.
Dump ==
  /\ pc = "idle" /\ trailer > 0
  /\ \E c \in BOOLEAN :
       /\ compress' = c
       /\ heap' = FormatEnter(heap, c, trailer)
       /\ compressed' = IF Compresses(c, heap[trailer])
                        THEN Append(compressed, trailer) ELSE compressed
  /\ indirect_dict' = <<>>
  /\ objlist' = <<>>
  /\ visited' = {}
  /\ stack' = <<Frame(heap', trailer, "root", 0)>>
  /\ pc' = "pass1"
  /\ UNCHANGED <<others, trailer, trailer_text, sink, offset, offsets>>

\* The first format_obj(trailer) returns; trailer.Size is set and the second
\* format_obj(trailer) is called (lines 117-121).
Pass1Done ==
  /\ Returning /\ Top.via = "root" /\ pc = "pass1"
  /\ LET sized == [heap EXCEPT ![trailer].kids =
                     (Key("/Size") :> Lit(Str(TrailerSize(objlist)))) @@ @]
     IN  /\ heap' = FormatEnter(sized, compress, trailer)
         /\ compressed' = IF Compresses(compress, sized[trailer])
                          THEN Append(compressed, trailer) ELSE compressed
  /\ stack' = <<Frame(heap', trailer, "root", 0)>>
  /\ pc' = "pass2"
  /\ UNCHANGED <<others, trailer, compress, indirect_dict, objlist, visited,
                 trailer_text, sink, offset, offsets>>

\* The second format_obj(trailer) returns (line 121).
Pass2Done ==
  /\ Returning /\ Top.via = "root" /\ pc = "pass2"
  /\ trailer_text' = FormatResult(heap[trailer], Top.myarray)
  /\ stack' = <<>>
  /\ pc' = "header"
  /\ UNCHANGED <<others, heap, trailer, compress, indirect_dict, objlist, visited,
                 sink, offset, offsets, compressed>>

\* A variant of dump whose first write comes before the second format_obj call
\* has returned.
CanWriteEarly(p) == p \in {"pass2", "header"}

\* Is dump at its first f.write? It is the statement after the second
\* format_obj(trailer) (lines 121-128).
CanWrite(p) == p = "header"

\* Lines 127-130.
WriteHeader ==
  /\ CanWrite(pc)
  /\ \E version \in Versions :
       /\ sink' = Append(sink, Header(version))
       /\ offset' = Len(Header(version))
  /\ offsets' = <<[off |-> 0, gen |-> FreeGen, flag |-> "f"]>>
  /\ pc' = "body"
  /\ UNCHANGED <<others, heap, trailer, compress, stack, indirect_dict, objlist, visited,
                 trailer_text, compressed>>

\* One turn of the loop of lines 132-136; Len(offsets) - 1 objects were written.
WriteObj ==
  /\ pc = "body" /\ Len(offsets) - 1 < Len(objlist)
  /\ LET i == Len(offsets) - 1
         objstr == ObjStr(i + 1, objlist[i + 1])
     IN  /\ offsets' = Append(offsets, [off |-> offset, gen |-> 0, flag |-> "n"])
         /\ offset' = Advance(offset, objstr)
         /\ sink' = Append(sink, objstr)
  /\ UNCHANGED <<others, heap, trailer, compress, pc, stack, indirect_dict, objlist,
                 visited, trailer_text, compressed>>

\* Line 138.
WriteXrefHead ==
  /\ pc = "body" /\ Len(offsets) - 1 = Len(objlist)
  /\ sink' = Append(sink, XrefHead(Len(offsets)))
  /\ pc' = "xref"
  /\ UNCHANGED <<others, heap, trailer, compress, stack, indirect_dict, objlist, visited,
                 trailer_text, offset, offsets, compressed>>

\* The number of xref entries written so far.
EntriesWritten == Len(sink) - Len(objlist) - 2

\* One turn of the loop of lines 139-140.
WriteXrefEntry ==
  /\ pc = "xref" /\ EntriesWritten < Len(offsets)
  /\ sink' = Append(sink, XrefEntry(offsets[EntriesWritten + 1]))
  /\ UNCHANGED <<others, heap, trailer, compress, pc, stack, indirect_dict, objlist,
                 visited, trailer_text, offset, offsets, compressed>>

\* Line 141.
WriteFooter ==
  /\ pc = "xref" /\ EntriesWritten = Len(offsets)
  /\ sink' = Append(sink, Footer(trailer_text, offset))
  /\ pc' = "done"
  /\ UNCHANGED <<others, heap, trailer, compress, stack, indirect_dict, objlist, visited,
                 trailer_text, offset, offsets, compressed>>

(***************************************************************************)
(* The input graphs of dump: every graph over the objects 1..MaxNode with  *)
(* at most MaxEdges references in which the trailer (object 1) is a plain  *)
(* dictionary, as PdfWriter.write builds it, and every other object either *)
(* is reachable from the trailer or is a bare scalar.                      *)
(***************************************************************************)
Nodes == 1..MaxNode
Targets == {Ref(n) : n \in Nodes}
DictKids == UNION {[S -> Targets] : S \in SUBSET {Key("/A"), Key("/B")}}
ArrayKids == UNION {[1..n -> Targets] : n \in 0..MaxKids}
Streams == {NoStream, <<"abc">>}
Plain == PdfObject(FALSE, "7")

Objects ==
  {PdfDict(i, s, k) : i \in BOOLEAN, s \in Streams, k \in DictKids}
    \cup {PdfArray(i, k) : i \in BOOLEAN, k \in ArrayKids}
    \cup {PdfObject(i, "7") : i \in BOOLEAN}

\* A trailer may carry a Size already.
OldSizes == {<<>>, Key("/Size") :> Lit("99"), Key("/Size") :> Ref(MaxNode)}
Trailers == {PdfDict(FALSE, NoStream, sz @@ k) : k \in DictKids, sz \in OldSizes}

\* The ids obj refers to.
KidIds(obj) == {obj.kids[k].id : k \in DOMAIN obj.kids} \ {0}

RECURSIVE ReachFrom(_, _)
\* The ids reachable from the set S, S included.
ReachFrom(h, S) ==
  LET T == S \cup UNION {KidIds(h[n]) : n \in S}
  IN  IF T = S THEN S ELSE ReachFrom(h, T)

RECURSIVE EdgeCount(_, _)
EdgeCount(h, S) ==
  IF S = {} THEN 0
  ELSE LET n == CHOOSE x \in S : TRUE
       IN  Cardinality(DOMAIN h[n].kids) + EdgeCount(h, S \ {n})

InputGraph(h) ==
  /\ EdgeCount(h, Nodes) <= MaxEdges
  /\ \A n \in Nodes \ ReachFrom(h, {1}) : h[n] = Plain

\* No dump has begun.
NoDump ==
  /\ compress = FALSE
  /\ stack = <<>>
  /\ indirect_dict = <<>>
  /\ objlist = <<>>
  /\ visited = {}
  /\ trailer_text = ""
  /\ sink = <<>>
  /\ offset = 0
  /\ offsets = <<>>
  /\ compressed = <<>>

Init ==
  /\ \E t \in Trailers, g \in [2..MaxNode -> Objects] :
       /\ heap = [n \in Nodes |-> IF n = 1 THEN t ELSE g[n]]
       /\ InputGraph(heap)
  /\ trailer = 1
  /\ pc = "idle"
  /\ NoDump
  /\ pagearray = 0
  /\ raised = ""
  /\ tokens = <<>>
  /\ packed = ""

Next ==
  \/ Dump
  \/ AddLiteral
  \/ AddCircular
  \/ AddInline
  \/ AddIndirectSeen
  \/ AddIndirectNew
  \/ ReturnInline
  \/ ReturnIndirect
  \/ Pass1Done
  \/ Pass2Done
  \/ WriteHeader
  \/ WriteObj
  \/ WriteXrefHead
  \/ WriteXrefEntry
  \/ WriteFooter

Spec == Init /\ [][Next]_vars

(***************************************************************************)
(* PdfWriter                                                               *)
(***************************************************************************)
\* The objects a caller holds once it has made a PdfWriter: a dictionary that
\* a page inlines (1), three pages (2, 3, 4; page 3 inlines object 1, page 4
\* still names the page tree it was read from, 5), that page tree, two more
\* dictionaries that are no pages (6, 7), and the PdfArray that
\* PdfWriter.__init__ creates (8; lines 146-149).
SourceHeap ==
  <<PdfDict(FALSE, NoStream, Key("/B") :> Lit("7"))>>
  \o <<PdfDict(FALSE, NoStream, Key("/Type") :> Lit("/Page")),
       PdfDict(TRUE, NoStream, (Key("/Type") :> Lit("/Page")) @@ (Key("/A") :> Ref(1))),
       PdfDict(TRUE, NoStream, (Key("/Type") :> Lit("/Page")) @@ (Key("/Parent") :> Ref(5))),
       PdfDict(TRUE, NoStream, Key("/Type") :> Lit("/Pages")),
       PdfDict(FALSE, NoStream, Key("/Type") :> Lit("/Font")),
       PdfDict(TRUE, NoStream, <<>>),
       PdfArray(FALSE, <<>>)>>

\* The objects a caller may pass to addpage.
Candidates == {n \in DOMAIN SourceHeap : SourceHeap[n].kind = "dict"}

\* page.Type == PdfName.Page (line 152)
IsPage(obj) ==
  /\ Key("/Type") \in DOMAIN obj.kids
  /\ obj.kids[Key("/Type")] = Lit("/Page")

\* The identity the next object created gets.
NewId(h) == Cardinality(DOMAIN h) + 1

\* self.pagearray as a sequence of ids.
Pages(h, pa) == [i \in DOMAIN h[pa].kids |-> h[pa].kids[i].id]

\* PdfObject(len(pagearray)) (line 159)
PageCount(kids) == Str(Len(kids))

\* addpage(page), the assertion holds (lines 152-153).
AddPage(page) ==
  /\ pc = "idle" /\ trailer = 0 /\ pagearray > 0
  /\ Len(heap[pagearray].kids) < MaxPages
  /\ IsPage(heap[page])
  /\ LET new == NewId(heap)
     IN  heap' = [heap EXCEPT ![pagearray].kids = Append(@, Ref(new))]
                 \o <<IndirectPdfDict(heap[page].stream, heap[page].kids)>>
  /\ raised' = ""
  /\ UNCHANGED <<dumpvars, trailer, pc, pagearray, tokens, packed>>

\* addpage(page), the assertion fails (line 152).
AddPageFail(page) ==
  /\ pc = "idle" /\ trailer = 0 /\ pagearray > 0
  /\ ~IsPage(heap[page])
  /\ raised' = "AssertionError"
  /\ UNCHANGED <<dumpvars, heap, trailer, pc, pagearray, tokens, packed>>

\* A variant of write that leaves out the loop of lines 162-163.
SetParentsSkip(h, pages, pagedict) == h

\* page.Parent = pagedict for every page of pagearray (lines 162-163).
SetParents(h, pages, pagedict) ==
  [n \in DOMAIN h |->
     IF \E i \in DOMAIN pages : pages[i] = n
     THEN [h[n] EXCEPT !.kids = (Key("/Parent") :> Ref(pagedict)) @@ @]
     ELSE h[n]]

\* write(fname) up to its call of dump (lines 156-170).
Write ==
  /\ pc = "idle" /\ trailer = 0 /\ pagearray > 0
  /\ LET pagedict == NewId(heap)
         rootdict == pagedict + 1
         kids == heap[pagearray].kids
     IN  /\ heap' = SetParents(heap, Pages(heap, pagearray), pagedict)
                    \o <<IndirectPdfDict(NoStream,
                           (Key("/Type") :> Lit("/Pages"))
                           @@ (Key("/Count") :> Lit(PageCount(kids)))
                           @@ (Key("/Kids") :> Ref(pagearray))),
                         IndirectPdfDict(NoStream,
                           (Key("/Type") :> Lit("/Catalog"))
                           @@ (Key("/Pages") :> Ref(pagedict))),
                         PdfDict(FALSE, NoStream, Key("/Root") :> Ref(rootdict))>>
         /\ trailer' = rootdict + 1
  /\ raised' = ""
  /\ UNCHANGED <<dumpvars, pc, pagearray, tokens, packed>>

InitWriter ==
  /\ heap = SourceHeap
  /\ pagearray = Len(SourceHeap)
  /\ trailer = 0
  /\ pc = "idle"
  /\ NoDump
  /\ raised = ""
  /\ tokens = <<>>
  /\ packed = ""

NextWriter ==
  \/ \E page \in Candidates : AddPage(page)
  \/ \E page \in Candidates : AddPageFail(page)
  \/ Write
  \/ Dump
  \/ AddLiteral
  \/ AddInline
  \/ AddIndirectSeen
  \/ AddIndirectNew
  \/ ReturnInline
  \/ ReturnIndirect
  \/ Pass1Done
  \/ Pass2Done
  \/ WriteHeader
  \/ WriteObj
  \/ WriteXrefHead
  \/ WriteXrefEntry
  \/ WriteFooter

SpecWriter == InitWriter /\ [][NextWriter]_vars

(***************************************************************************)
(* format_array called alone, on sequences of tokens of chosen lengths.    *)
(***************************************************************************)
RECURSIVE Token(_)
\* A token of n characters.
Token(n) == IF n = 0 THEN "" ELSE "x" \o Token(n - 1)

TokenLengths == {1, 2, LineWidth \div 2 - 1, LineWidth \div 2, LineWidth \div 2 + 1,
                 LineWidth - 1, LineWidth, LineWidth + 1}

TokenSeqs == UNION {[1..n -> {Token(l) : l \in TokenLengths}] : n \in 0..MaxTokens}

Formatters == {ArrayFmt, DictFmt}

FormatArray ==
  /\ pc = "pack"
  /\ \E formatter \in Formatters : packed' = format_array(tokens, formatter)
  /\ pc' = "packed"
  /\ UNCHANGED <<dumpvars, heap, trailer, pagearray, raised, tokens>>

InitPack ==
  /\ tokens \in TokenSeqs
  /\ packed = ""
  /\ pc = "pack"
  /\ heap = <<>>
  /\ trailer = 0
  /\ pagearray = 0
  /\ raised = ""
  /\ NoDump

NextPack == FormatArray

SpecPack == InitPack /\ [][NextPack]_vars

(***************************************************************************)
(* Vocabulary of the properties.  None of it is used by the actions.       *)
(***************************************************************************)
Range(f) == {f[x] : x \in DOMAIN f}

\* An object that has to be written as a numbered object: flagged indirect, or
\* a dictionary with a stream payload.
Numbered(obj) == obj.indirect \/ (obj.kind = "dict" /\ obj.stream /= NoStream)

\* The ids obj refers to, array elements by index and dictionary entries by
\* key, both ascending.
KidsInOrder(obj) ==
  LET D == DOMAIN obj.kids
      last == IF D = {} THEN 0 ELSE CHOOSE m \in D : \A x \in D : x <= m
      upto[k \in 0..last] ==
        IF k = 0 THEN <<>>
        ELSE IF k \in D /\ obj.kids[k].id /= 0
             THEN Append(upto[k - 1], obj.kids[k].id)
             ELSE upto[k - 1]
  IN  upto[last]

RECURSIVE Walk(_, _, _)
\* Depth-first, pre-order: todo are the objects still to visit, order the
\* numbered objects met so far.
Walk(h, todo, order) ==
  IF todo = <<>> THEN order
  ELSE LET c == Head(todo)
       IN  IF Numbered(h[c]) /\ c \in Range(order)
           THEN Walk(h, Tail(todo), order)
           ELSE Walk(h, KidsInOrder(h[c]) \o Tail(todo),
                     IF Numbered(h[c]) THEN Append(order, c) ELSE order)

\* The numbered objects in the order a depth-first walk from the trailer
\* first meets them.
PreOrder(h) == Walk(h, KidsInOrder(h[trailer]), <<>>)

\* The numbered objects the trailer leads to.
ReachableNumbered(h) ==
  {n \in ReachFrom(h, KidIds(h[trailer])) : Numbered(h[n])}

\* The first format_obj(trailer) is about to return: pass 1 is complete and
\* the heap still is the graph dump was given (but for what compress added).
Pass1Complete == pc = "pass1" /\ Returning /\ Top.via = "root"

\* dump returned.
Done == pc = "done"

\* The objects reachable from S in one or more steps through objects that
\* are inlined only.
RECURSIVE InlineReach(_, _, _)
InlineReach(h, S, seen) ==
  LET step == {m \in UNION {KidIds(h[n]) : n \in S} : ~Numbered(h[m])}
  IN  IF step \subseteq seen THEN seen
      ELSE InlineReach(h, step \ seen, seen \cup step)

\* The graph under the trailer has a cycle all of whose members are inlined.
InlineCycle(h) ==
  \E n \in ReachFrom(h, {trailer}) :
    ~Numbered(h[n]) /\ n \in InlineReach(h, {n}, {})

(***************************************************************************)
(* C1.  When pass 1 is complete, the numbered objects the trailer leads to *)
(* hold exactly the numbers 1..K, K the number of such objects, handed out *)
(* in depth-first pre-order first-discovery order (dictionary entries by   *)
(* sorted key, array elements by index); when dump has returned, the table *)
(* still is one-to-one onto 1..K and objlist has K entries.                *)
(***************************************************************************)
C1_Numbering ==
  /\ Pass1Complete =>
       LET order == PreOrder(heap)
       IN  /\ DOMAIN indirect_dict = ReachableNumbered(heap)
           /\ Len(order) = Cardinality(ReachableNumbered(heap))
           /\ \A i \in DOMAIN order : indirect_dict[order[i]] = i
           /\ Len(objlist) = Len(order)
  /\ Done =>
       /\ Range(indirect_dict) = 1..Len(objlist)
       /\ Cardinality(DOMAIN indirect_dict) = Len(objlist)

\* Pass 1 is complete on a graph all of whose objects but the trailer are
\* numbered, one of them a stream dictionary whose indirect flag is false.
C1_Witness ==
  /\ Pass1Complete
  /\ Cardinality(DOMAIN indirect_dict) = MaxNode - 1
  /\ \E n \in DOMAIN indirect_dict :
       heap[n].kind = "dict" /\ ~heap[n].indirect /\ heap[n].stream /= NoStream

(***************************************************************************)
(* C3.  dump raises the circular-reference error if and only if the graph  *)
(* under the trailer has a cycle all of whose members are inlined; when    *)
(* every cycle passes through an indirect object, dump completes.          *)
(***************************************************************************)
C3_CycleDetection ==
  /\ pc = "error" => InlineCycle(heap)
  /\ pc \in {"pass2", "header", "body", "xref", "done"} => ~InlineCycle(heap)

(***************************************************************************)
(* Reading the bytes the sink received.                                    *)
(***************************************************************************)
StartsWith(s, p) == Len(s) >= Len(p) /\ SubSeq(s, 1, Len(p)) = p
EndsWith(s, p) == Len(s) >= Len(p) /\ SubSeq(s, Len(s) - Len(p) + 1, Len(s)) = p

\* The places of s where p begins.
Places(s, p) == {i \in 1..(Len(s) - Len(p) + 1) : SubSeq(s, i, i + Len(p) - 1) = p}
Contains(s, p) == Places(s, p) /= {}

Digits == {"0", "1", "2", "3", "4", "5", "6", "7", "8", "9"}

RECURSIVE DigitRun(_, _)
\* The longest run of decimal digits of s that begins at place i.
DigitRun(s, i) ==
  IF i <= Len(s) /\ SubSeq(s, i, i) \in Digits
  THEN SubSeq(s, i, i) \o DigitRun(s, i + 1)
  ELSE ""

\* The decimal number that follows the first p in s.
NumberAfter(s, p) == DigitRun(s, Min(Places(s, p)) + Len(p))

RECURSIVE Value(_)
\* The number a string of decimal digits denotes.
Value(ds) ==
  IF ds = "" THEN 0
  ELSE 10 * Value(SubSeq(ds, 1, Len(ds) - 1))
       + (CHOOSE d \in 0..9 : ToString(d) = SubSeq(ds, Len(ds), Len(ds)))

\* The chunks of the sink, by what they are.
IsObjBlock(c, n) == StartsWith(c, ToString(n) \o " 0 obj\n") /\ EndsWith(c, "\nendobj\n")
ObjBlocks(n) == {i \in DOMAIN sink : IsObjBlock(sink[i], n)}
AllObjBlocks == {i \in DOMAIN sink : \E n \in 1..Len(sink) : IsObjBlock(sink[i], n)}
IsXrefHead(c) == StartsWith(c, "xref\n0 ")
XrefHeads == {i \in DOMAIN sink : IsXrefHead(sink[i])}
IsXrefEntry(c) ==
  /\ Len(c) = 20 /\ EndsWith(c, "\r\n")
  /\ DigitRun(c, 1) = SubSeq(c, 1, 10) /\ DigitRun(c, 12) = SubSeq(c, 12, 16)
XrefEntries == {i \in DOMAIN sink : IsXrefEntry(sink[i])}
IsFooter(c) == StartsWith(c, "trailer\n\n") /\ EndsWith(c, "\n%%EOF\n")
IsHeader(c) == StartsWith(c, "%PDF-")

\* The number of bytes the sink held before chunk i.
BytesBefore(i) == SumLen(SubSeq(sink, 1, i - 1))

\* The token format_obj holds for the j-th item of the activation f.
TokenAt(f, j) == IF heap[f.node].kind = "dict" THEN f.myarray[2 * j] ELSE f.myarray[j]

(***************************************************************************)
(* C2.  Every add of a numbered object has returned the reference token of *)
(* the one number the table holds for it, two objects never share a number *)
(* (however alike they are), a number once given is kept, add formats a    *)
(* numbered object only when the table does not hold it yet, a formatted   *)
(* objlist entry is never formatted again, and the output has exactly one  *)
(* "<n> 0 obj" block for every numbered object.                            *)
(***************************************************************************)
C2_State ==
  /\ \A k \in DOMAIN stack : \A j \in 1..(stack[k].i - 1) :
       LET v == stack[k].items[j].val
       IN  (v.id /= 0 /\ Numbered(heap[v.id])) =>
             /\ v.id \in DOMAIN indirect_dict
             /\ TokenAt(stack[k], j) = ToString(indirect_dict[v.id]) \o " 0 R"
  /\ \A a, b \in DOMAIN indirect_dict :
       a /= b => indirect_dict[a] /= indirect_dict[b]
  /\ Done =>
       /\ \A n \in DOMAIN indirect_dict :
            Cardinality(ObjBlocks(indirect_dict[n])) = 1
       /\ Cardinality(AllObjBlocks) = Cardinality(DOMAIN indirect_dict)

C2_Step ==
  /\ \A n \in DOMAIN indirect_dict :
       n \in DOMAIN indirect_dict' /\ indirect_dict'[n] = indirect_dict[n]
  /\ (Len(stack') > Len(stack) /\ stack'[Len(stack')].via = "indirect") =>
       stack'[Len(stack')].node \notin DOMAIN indirect_dict
  /\ \A i \in DOMAIN objlist :
       objlist[i] /= None => (i \in DOMAIN objlist' /\ objlist'[i] = objlist[i])

C2_Dedup == [](C2_State) /\ [][C2_Step]_vars

\* dump returned; the trailer names one numbered object twice, two equal
\* tokens stand in the trailer text and one block in the output.
C2_Witness ==
  /\ Done
  /\ \E n \in DOMAIN indirect_dict :
       /\ Cardinality({k \in DOMAIN heap[trailer].kids :
                         heap[trailer].kids[k] = Ref(n)}) = 2
       /\ Cardinality(Places(trailer_text, RefToken(indirect_dict[n]))) = 2
       /\ Cardinality(ObjBlocks(indirect_dict[n])) = 1

(***************************************************************************)
(* C4.  When dump has returned, the number after /Size in the trailer text *)
(* it wrote is the number of "obj" blocks written plus one, and so are the *)
(* count on the xref header line and the number of xref entry lines, the   *)
(* first of which is the free-list head.                                   *)
(***************************************************************************)
C4_TrailerSize ==
  Done =>
    LET foot == sink[Len(sink)]
        want == ToString(Cardinality(AllObjBlocks) + 1)
    IN  /\ IsFooter(foot)
        /\ NumberAfter(foot, "/Size ") = want
        /\ Cardinality(XrefHeads) = 1
        /\ \A i \in XrefHeads :
             /\ sink[i] = "xref\n0 " \o want \o "\n"
             /\ sink[i + 1] = "0000000000 65535 f\r\n"
        /\ Cardinality(XrefEntries) = Cardinality(AllObjBlocks) + 1

\* dump returned on a trailer that came with a Size: the object the old Size
\* named has a number, and the trailer no longer leads to it.
C4_Witness ==
  /\ Done
  /\ Len(objlist) = 2
  /\ \E n \in DOMAIN indirect_dict : n \notin ReachFrom(heap, {trailer})

(***************************************************************************)
(* C5.  When dump has returned, the offset written in xref entry n is the  *)
(* number of bytes the sink held before the block "<n> 0 obj" (the header  *)
(* and all earlier blocks), the offsets increase strictly with n, and the  *)
(* number after startxref is the number of bytes before the xref keyword.  *)
(***************************************************************************)
C5_XrefAccuracy ==
  Done =>
    LET x == Min(XrefHeads)
        entry(n) == sink[x + 1 + n]
        off(n) == Value(SubSeq(entry(n), 1, 10))
        K == Cardinality(AllObjBlocks)
    IN  /\ \A n \in 1..K :
             /\ IsXrefEntry(entry(n))
             /\ Cardinality(ObjBlocks(n)) = 1
             /\ \A i \in ObjBlocks(n) : off(n) = BytesBefore(i)
             /\ off(n) >= Len(sink[1])
             /\ n > 1 => off(n - 1) < off(n)
        /\ IsHeader(sink[1])
        /\ Value(NumberAfter(sink[Len(sink)], "\nstartxref\n")) = BytesBefore(x)

\* dump returned after writing three blocks under the longer header.
C5_Witness ==
  /\ Done
  /\ Cardinality(AllObjBlocks) = MaxNode - 1
  /\ sink[1] = Header("1.10")

(***************************************************************************)
(* C6.  A PdfWriter never meets the circular-reference error; when write   *)
(* has returned after n >= 1 successful addpage calls, the output has      *)
(* n + 2 numbered objects (one per addpage call, the Pages node and the    *)
(* Catalog), an xref section of n + 3 entries, a Pages node with Count n   *)
(* and with the n page references as Kids in addpage order, and in every   *)
(* page block a Parent reference to the Pages node; an addpage call that   *)
(* fails leaves every object, the page list included, as it was.           *)
(***************************************************************************)
\* The text of the block numbered num.
Block(num) == sink[Min(ObjBlocks(num))]

C6_State ==
  /\ pc /= "error"
  /\ ~(Calling /\ Arg.id > 0 /\ ~Numbered(heap[Arg.id]) /\ Arg.id \in visited)
  /\ (Done /\ Len(heap[pagearray].kids) >= 1) =>
       LET pages == Pages(heap, pagearray)
           n == Len(pages)
           catalog == heap[trailer].kids[Key("/Root")].id
           tree == heap[catalog].kids[Key("/Pages")].id
           num(o) == indirect_dict[o]
       IN  /\ Cardinality(AllObjBlocks) = n + 2
           /\ DOMAIN indirect_dict = {catalog, tree} \cup Range(pages)
           /\ \A i \in XrefHeads : sink[i] = "xref\n0 " \o ToString(n + 3) \o "\n"
           /\ Cardinality(XrefEntries) = n + 3
           /\ \A i, j \in 1..n : i /= j => num(pages[i]) /= num(pages[j])
           /\ Contains(Block(num(tree)), "/Count " \o ToString(n) \o " ")
           /\ Contains(Block(num(tree)),
                "/Kids [" \o Join(" ", [i \in 1..n |-> ToString(num(pages[i])) \o " 0 R"])
                \o "]")
           /\ \A i \in 1..n :
                Contains(Block(num(pages[i])),
                         "/Parent " \o ToString(num(tree)) \o " 0 R")

C6_Step ==
  /\ raised' = "AssertionError" => heap' = heap
  /\ (pc = "idle" /\ pc' = "idle" /\ trailer' = 0 /\ raised' = "") =>
       Len(heap'[pagearray].kids) = Len(heap[pagearray].kids) + 1

C6_HighLevel == [](C6_State) /\ [][C6_Step]_vars

\* write returned after the same page, one that inlines a dictionary, was
\* added twice.
C6_Witness ==
  /\ Done /\ pagearray > 0
  /\ Len(heap[pagearray].kids) = 2
  /\ heap[heap[pagearray].kids[1].id] = heap[heap[pagearray].kids[2].id]
  /\ Key("/A") \in DOMAIN heap[heap[pagearray].kids[1].id].kids
  /\ Cardinality(AllObjBlocks) = 4

(***************************************************************************)
(* C7.  From the moment the second format_obj(trailer) is called, the      *)
(* table, objlist and the record of compress calls stay as pass 1 left     *)
(* them; pass 2 formats no numbered object; and the Size that was computed *)
(* from objlist at the end of pass 1 is the number of blocks written + 1.  *)
(***************************************************************************)
C7_State ==
  /\ pc = "pass2" => \A k \in DOMAIN stack : stack[k].via /= "indirect"
  /\ pc \in {"pass2", "header", "body", "xref", "done"} =>
       heap[trailer].kids[Key("/Size")] = Lit(ToString(Len(objlist) + 1))
  /\ Done => Cardinality(AllObjBlocks) = Len(objlist)

C7_Step ==
  (pc' \in {"pass2", "header", "body", "xref", "done"}) =>
    /\ indirect_dict' = indirect_dict
    /\ objlist' = objlist
    /\ compressed' = compressed

C7_TwoPass == [](C7_State) /\ [][C7_Step]_vars

\* Pass 2 is formatting an inlined object again after add returned the
\* reference of an object that was numbered and compressed in pass 1.
C7_Witness ==
  /\ pc = "pass2" /\ Len(stack) = 2
  /\ stack[1].i > 1
  /\ EndsWith(stack[1].myarray[2], " 0 R")
  /\ compressed /= <<>>

(***************************************************************************)
(* C8.  The visited set holds exactly the inlined objects whose add has    *)
(* not returned yet, no object twice; it is empty whenever a pass is       *)
(* complete; wherever add returned for an inlined object, the caller holds *)
(* the object's text, not a reference; and the circular-reference error is *)
(* raised only for an object that the graph reaches from itself.           *)
(***************************************************************************)
InlineFrames == {k \in DOMAIN stack : stack[k].via = "inline"}

C8_CycleGuard ==
  /\ visited = {stack[k].node : k \in InlineFrames}
  /\ \A k1, k2 \in InlineFrames : k1 /= k2 => stack[k1].node /= stack[k2].node
  /\ (Pass1Complete \/ pc \in {"header", "body", "xref", "done"}) => visited = {}
  /\ (pc = "pass2" /\ Len(stack) = 1) => visited = {}
  /\ pc = "error" => Arg.id \in ReachFrom(heap, KidIds(heap[Arg.id]))
  /\ \A k \in DOMAIN stack : \A j \in 1..(stack[k].i - 1) :
       LET v == stack[k].items[j].val
       IN  (v.id /= 0 /\ ~Numbered(heap[v.id])) =>
             /\ ~EndsWith(TokenAt(stack[k], j), " 0 R")
             /\ heap[v.id].kind = "dict" => StartsWith(TokenAt(stack[k], j), "<<")
             /\ heap[v.id].kind = "array" => StartsWith(TokenAt(stack[k], j), "[")
             /\ heap[v.id].kind = "scalar" => TokenAt(stack[k], j) = heap[v.id].text

\* format_obj holds the text of one inlined dictionary or array for two of
\* its items, while it is itself being inlined.
C8_Witness ==
  /\ pc = "pass1"
  /\ visited /= {}
  /\ \E k \in DOMAIN stack : \E j1, j2 \in 1..(stack[k].i - 1) :
       /\ j1 < j2
       /\ stack[k].items[j1].val = stack[k].items[j2].val
       /\ stack[k].items[j1].val.id /= 0
       /\ ~Numbered(heap[stack[k].items[j1].val.id])
       /\ heap[stack[k].items[j1].val.id].kind /= "scalar"

(***************************************************************************)
(* C10.  Nothing is written before both passes are complete, so the sink   *)
(* is empty when dump aborts; once the sink holds anything, every object   *)
(* the trailer leads to is numbered and formatted, and what the sink holds *)
(* is, in this order: the header, the blocks 1..K, the xref header, the    *)
(* K + 1 xref entries, the trailer footer.                                 *)
(***************************************************************************)
C10_NoOutputOnError ==
  LET K == Len(objlist)
  IN  /\ pc \in {"idle", "pass1", "pass2", "error", "header"} => sink = <<>>
      /\ sink /= <<>> =>
           /\ stack = <<>>
           /\ visited = {}
           /\ \A i \in DOMAIN objlist : objlist[i] /= None
           /\ ReachableNumbered(heap) \subseteq DOMAIN indirect_dict
           /\ Len(sink) <= 2 * K + 4
           /\ \A i \in DOMAIN sink :
                /\ i = 1 => IsHeader(sink[i])
                /\ (2 <= i /\ i <= K + 1) => sink[i] = ObjStr(i - 1, objlist[i - 1])
                /\ i = K + 2 => IsXrefHead(sink[i])
                /\ (K + 3 <= i /\ i <= 2 * K + 3) => IsXrefEntry(sink[i])
                /\ i = 2 * K + 4 => IsFooter(sink[i])
      /\ Done => Len(sink) = 2 * K + 4

\* dump aborted after it had numbered and formatted an object.
C10_Witness ==
  /\ pc = "error"
  /\ sink = <<>>
  /\ \E i \in DOMAIN objlist : objlist[i] /= None

(***************************************************************************)
(* C9.  format_array puts the tokens on one line when they are at most     *)
(* LineWidth characters long joined by single spaces; otherwise it splits  *)
(* them greedily into line groups, a new group beginning exactly where one *)
(* more token would make the group longer than LineWidth; so no group is   *)
(* empty, a group of several tokens is at most LineWidth long, and the     *)
(* groups in order give the tokens back.                                   *)
(***************************************************************************)
RECURSIVE Split(_, _)
\* s.split(sep)
Split(s, sep) ==
  IF Places(s, sep) = {} THEN <<s>>
  ELSE LET i == Min(Places(s, sep))
       IN  <<SubSeq(s, 1, i - 1)>> \o Split(SubSeq(s, i + Len(sep), Len(s)), sep)

\* The line groups of a packed text: the text between the brackets, split at
\* the line breaks and then at the spaces.
GroupsOf(text) ==
  LET open == IF StartsWith(text, "[") THEN 1 ELSE 2
      body == SubSeq(text, open + 1, Len(text) - open)
      lines == Split(body, "\n  ")
  IN  [l \in DOMAIN lines |-> Split(lines[l], " ")]

RECURSIVE Greedy(_, _)
\* The greedy grouping: rest are the tokens to place, groups those made.
Greedy(rest, groups) ==
  IF rest = <<>> THEN groups
  ELSE LET x == Head(rest)
           n == Len(groups)
       IN  IF n = 0 \/ Len(Join(" ", Append(groups[n], x))) > LineWidth
           THEN Greedy(Tail(rest), Append(groups, <<x>>))
           ELSE Greedy(Tail(rest), [groups EXCEPT ![n] = Append(@, x)])

RECURSIVE Flatten(_)
Flatten(groups) == IF groups = <<>> THEN <<>> ELSE Head(groups) \o Flatten(Tail(groups))

C9_TokenPacking ==
  (pc = "packed" /\ tokens /= <<>>) =>
    LET groups == GroupsOf(packed)
    IN  /\ Len(Join(" ", tokens)) <= LineWidth => groups = <<tokens>>
        /\ Len(Join(" ", tokens)) > LineWidth => groups = Greedy(tokens, <<>>)
        /\ \A g \in DOMAIN groups :
             /\ groups[g] /= <<>>
             /\ Len(groups[g]) > 1 => Len(Join(" ", groups[g])) <= LineWidth
        /\ Flatten(groups) = tokens

====
